---- MODULE Spec2Model ----
(***************************************************************************)
(* Model of the forecast model cache of DairyPredict                       *)
(* (src/utils/forecasting.py, class DairyForecaster) and of the pages that *)
(* drive it.  A DairyForecaster keeps three in-memory dicts (models,       *)
(* model_performance, metadata) and persists, per product, three pickle    *)
(* files in the directory "models".  Several forecasters share that        *)
(* directory: one per browser session, plus the temporary forecasters of   *)
(* the company comparison view.                                            *)
(***************************************************************************)
EXTENDS Integers, Sequences, FiniteSets, TLC

\* ------------------------------------------------------------------ bounds
MaxTrain == 2          \* trainings whose fit succeeds, over a whole run

\* --------------------------------------------------------- inputs and values
\* Who calls: the session's forecaster, or another one (another session's,
\* or a temporary one).

\* Product keys are strings, written as tuples of characters.  "a b" and
\* "a_b" differ only in the character that save_model rewrites; the pages
\* pass keys of both shapes (a product name such as "Ice Cream", and
\* f"{company}_{product}" in the comparison view).
Keys == { <<"a", " ", "b">>, <<"a", "_", "b">>, <<"c">> }

\* The three files of a product.
Parts == {"model", "performance", "metadata"}

\* The order in which save_model writes, load_model reads and delete_model
\* removes them.
PartOrder == <<"model", "performance", "metadata">>

NoKey == << >>

\* A value is what a dict entry or a file holds.  st: "none" (no dict entry),
\* "absent" (no file), "corrupt" (a file pickle.load raises on), "ok".  by is
\* the training that produced the value; a training's data fixes data_points
\* and date_range, and its moment fixes trained_date, so by stands for them.
\* product is the 'product' field of a metadata dict.
None == [st |-> "none", by |-> 0, product |-> NoKey]
Absent == [st |-> "absent", by |-> 0, product |-> NoKey]
Corrupt == [st |-> "corrupt", by |-> 0, product |-> NoKey]
ModelOf(t) == [st |-> "ok", by |-> t, product |-> NoKey]
PerformanceOf(t) == [st |-> "ok", by |-> t, product |-> NoKey]
MetadataOf(t, product) == [st |-> "ok", by |-> t, product |-> product]

\* product.replace(' ', '_'): the file name stem of a product key.
Encode(product) ==
    [i \in DOMAIN product |-> IF product[i] = " " THEN "_" ELSE product[i]]

\* model_file.replace('_model.pkl', '').replace('_', ' '): the product key
\* read back from the stem of a model file.
Decode(stem) ==
    [i \in DOMAIN stem |-> IF stem[i] = "_" THEN " " ELSE stem[i]]

Stems == { Encode(k) : k \in Keys }

\* What can go wrong in save_model: nothing (at = 0), or the write of file
\* number at raises, either in open(path, 'wb') (the file is left as it was)
\* or in pickle.dump (open has truncated the file already).
Faults ==
    { [at |-> 0, how |-> "none"] }
        \cup { [at |-> i, how |-> h] : i \in 1..3, h \in {"open", "dump"} }

\* What can go wrong in delete_model: nothing (0), or os.remove raises at the
\* i-th file.
RemoveFaults == 0..3

VARIABLES
    disk,        \* disk[stem][part]: the files of the models directory
    forecaster,  \* the three dicts of the session's DairyForecaster
    nextId,      \* the next training
    lastOp,      \* the last call: op, the product of a load or of a train
                 \* that got to its save, the value returned (ret) and
                 \* what its save_model returned (saved)
    everSaved,   \* the product keys save_model has been called with
    job,         \* job[w]: the train_model call another session w is in
    rd,          \* the load_model call the session is in, file by file
    models_trained,    \* st.session_state.models_trained
    training_results,  \* the entries of the last "Train Models" batch
    args,        \* the arguments of the call under study
    result,      \* what the call under study returned
    deleted      \* the keys delete_model has returned True for, until their
                 \* next train or load: followed for the forecast calls

vars == <<disk, forecaster, nextId, lastOp, everSaved, job, rd,
          models_trained, training_results, args, result, deleted>>

\* The training page's session state, and the arguments and the return value
\* of the one forecast, evaluation or optimizer call under study.
page == <<models_trained, training_results>>
call == <<args, result, deleted>>

\* The sessions that train while the followed session loads.
Writers == {1, 2}

EmptyDict == [k \in Keys |-> None]

\* self.models = {}; self.model_performance = {}; self.metadata = {}
EmptyForecaster ==
    [models |-> EmptyDict, model_performance |-> EmptyDict, metadata |-> EmptyDict]

EmptyDisk == [s \in Stems |-> [p \in Parts |-> Absent]]

\* ------------------------------------------------------------- file access

\* os.path.exists(path)
Exists(d, stem, part) == d[stem][part].st # "absent"

\* WriteFile as it would be with a mode that keeps an existing file.
WriteFileKeepsExisting(d, stem, part, value, how) ==
    IF how = "none" /\ ~Exists(d, stem, part)
    THEN [d EXCEPT ![stem][part] = value]
    ELSE d

\* with open(path, 'wb') as f: pickle.dump(value, f), with its outcome.
WriteFile(d, stem, part, value, how) ==
    CASE how = "none" -> [d EXCEPT ![stem][part] = value]
      [] how = "open" -> d
      [] how = "dump" -> [d EXCEPT ![stem][part] = Corrupt]

\* os.remove(path)
RemoveFile(d, stem, part) == [d EXCEPT ![stem][part] = Absent]

\* model_exists
ModelExists(d, product) == Exists(d, Encode(product), "model")

\* get_available_models: the decoded stems of the model files.
GetAvailableModels(d) == { Decode(s) : s \in { x \in Stems : Exists(d, x, "model") } }

\* ------------------------------------------------------------- save_model

\* The outcome of the i-th write of a save hit by fault.
HowAt(fault, i) == IF fault.at = i THEN fault.how ELSE "none"

\* The value save_model writes to each file: the model it is given, the
\* performance entry of the dict (self.model_performance.get(product, {})),
\* and the metadata it builds.
SaveValue(m, product, t, part) ==
    CASE part = "model" -> ModelOf(t)
      [] part = "performance" -> m.model_performance[product]
      [] part = "metadata" -> MetadataOf(t, product)

\* The files after the first n writes of a save hit by fault.
RECURSIVE SaveWrites(_, _, _, _, _, _)
SaveWrites(d, m, product, t, fault, n) ==
    IF n = 0 THEN d
    ELSE LET before == SaveWrites(d, m, product, t, fault, n - 1)
             part == PartOrder[n]
         IN WriteFile(before, Encode(product), part,
                      SaveValue(m, product, t, part), HowAt(fault, n))

\* save_model(product, model, training_data): writes the three files in
\* order; the first write that raises ends it, with False and without the
\* metadata dict entry.
SaveModel(d, m, product, t, fault) ==
    IF fault.at = 0
    THEN [ret |-> TRUE,
          disk |-> SaveWrites(d, m, product, t, fault, 3),
          mem |-> [m EXCEPT !.metadata[product] = MetadataOf(t, product)]]
    ELSE [ret |-> FALSE,
          disk |-> SaveWrites(d, m, product, t, fault, fault.at),
          mem |-> m]

\* ------------------------------------------------------------- load_model

\* LoadModel as it would be if only the model file were required.
LoadModelChecksModelOnly(d, m, product) ==
    LET stem == Encode(product) IN
    IF d[stem]["model"].st # "ok" THEN [ret |-> FALSE, mem |-> m]
    ELSE [ret |-> TRUE,
          mem |-> [models |-> [m.models EXCEPT ![product] = d[stem]["model"]],
                   model_performance |->
                       [m.model_performance EXCEPT ![product] = d[stem]["performance"]],
                   metadata |-> [m.metadata EXCEPT ![product] = d[stem]["metadata"]]]]

\* load_model(product): False when a file is missing or unreadable, else
\* the three dict entries are set from the three files.
LoadModel(d, m, product) ==
    LET stem == Encode(product) IN
    IF \E p \in Parts : ~Exists(d, stem, p) THEN [ret |-> FALSE, mem |-> m]
    ELSE IF \E p \in Parts : d[stem][p].st = "corrupt" THEN [ret |-> FALSE, mem |-> m]
    ELSE [ret |-> TRUE,
          mem |-> [models |-> [m.models EXCEPT ![product] = d[stem]["model"]],
                   model_performance |->
                       [m.model_performance EXCEPT ![product] = d[stem]["performance"]],
                   metadata |-> [m.metadata EXCEPT ![product] = d[stem]["metadata"]]]]

\* os.listdir filtered by endswith('_model.pkl'), as a sequence of stems.
RECURSIVE SeqOfSet(_)
SeqOfSet(S) ==
    IF S = {} THEN << >>
    ELSE LET x == CHOOSE y \in S : TRUE IN <<x>> \o SeqOfSet(S \ {x})

ModelFiles(d) == SeqOfSet({ s \in Stems : Exists(d, s, "model") })

\* load_all_models: load_model of the decoded stem of every model file.
RECURSIVE LoadAllFrom(_, _, _)
LoadAllFrom(d, m, files) ==
    IF files = << >> THEN m
    ELSE LoadAllFrom(d, LoadModel(d, m, Decode(Head(files))).mem, Tail(files))

\* LoadAllModels as it would be if a failed load_model ended the loop.
RECURSIVE LoadAllUntilFailure(_, _, _)
LoadAllUntilFailure(d, m, files) ==
    IF files = << >> THEN m
    ELSE LET r == LoadModel(d, m, Decode(Head(files))) IN
         IF r.ret THEN LoadAllUntilFailure(d, r.mem, Tail(files)) ELSE m

LoadAllModelsStopsAtFailure(d, m) == LoadAllUntilFailure(d, m, ModelFiles(d))

LoadAllModels(d, m) == LoadAllFrom(d, m, ModelFiles(d))

\* DairyForecaster(): empty dicts, then load_all_models.
NewForecaster(d) == LoadAllModels(d, EmptyForecaster)

\* ----------------------------------------------------------- delete_model

\* The files after the removals of delete_model that precede a raising one
\* (all three when none raises).
RECURSIVE DeleteRemoves(_, _, _)
DeleteRemoves(d, stem, n) ==
    IF n = 0 THEN d
    ELSE LET before == DeleteRemoves(d, stem, n - 1) IN
         IF Exists(before, stem, PartOrder[n])
         THEN RemoveFile(before, stem, PartOrder[n])
         ELSE before

\* The index of the file at which os.remove raises: a file that does not
\* exist is not removed, so the fault needs an existing file.
RemoveRaises(d, stem, rmFault) ==
    rmFault # 0 /\ Exists(d, stem, PartOrder[rmFault])

\* delete_model(product)
DeleteModelResult(d, m, product, rmFault) ==
    LET stem == Encode(product) IN
    IF RemoveRaises(d, stem, rmFault)
    THEN [ret |-> FALSE, disk |-> DeleteRemoves(d, stem, rmFault - 1), mem |-> m]
    ELSE [ret |-> TRUE,
          disk |-> DeleteRemoves(d, stem, 3),
          mem |-> [models |-> [m.models EXCEPT ![product] = None],
                   model_performance |-> [m.model_performance EXCEPT ![product] = None],
                   metadata |-> [m.metadata EXCEPT ![product] = None]]]

\* ------------------------------------------------------------ train_model

\* train_model(data, product) once model.fit has returned: the model goes
\* into the dict, _evaluate_model sets the performance entry, save_model
\* runs and its result is dropped; train_model returns True.
TrainModelResult(d, m, product, t, fault) ==
    LET m1 == [m EXCEPT !.models[product] = ModelOf(t)]
        m2 == [m1 EXCEPT !.model_performance[product] = PerformanceOf(t)]
        saved == SaveModel(d, m2, product, t, fault)
    IN [ret |-> TRUE, saved |-> saved.ret, disk |-> saved.disk, mem |-> saved.mem]

\* --------------------------------------------------------- generate_forecast

\* Bounds of a forecast: its rows, and the values model.predict can give.
MaxPeriods == 1
Predictions == {-1, 1}

\* np.maximum(x, 0)
ClampKeeps(x) == x
Clamp(x) == IF x > 0 THEN x ELSE 0

\* What model.predict returns: rows with lower <= yhat <= upper.
RawRows ==
    { r \in [yhat : Predictions, yhat_lower : Predictions, yhat_upper : Predictions] :
        r.yhat_lower <= r.yhat /\ r.yhat <= r.yhat_upper }
RawForecasts == UNION { [1..n -> RawRows] : n \in 1..MaxPeriods }
PredictRaises == << >>

NoModelFound == "No trained model found"
ForecastError == "Error generating forecast"
ForecastGenerated == "Forecast generated successfully"

\* generate_forecast(product, periods): raw is what model.predict gives for
\* the future frame, PredictRaises when it raises.
GenerateForecastLoadsFromDisk(d, m, product, raw) ==
    IF m.models[product] = None /\ ~ModelExists(d, product)
    THEN [forecast |-> None, message |-> NoModelFound, mem |-> m]
    ELSE IF raw = PredictRaises
    THEN [forecast |-> None, message |-> ForecastError, mem |-> m]
    ELSE [forecast |-> [i \in DOMAIN raw |->
                          [yhat |-> Clamp(raw[i].yhat),
                           yhat_lower |-> Clamp(raw[i].yhat_lower),
                           yhat_upper |-> Clamp(raw[i].yhat_upper)]],
          message |-> ForecastGenerated, mem |-> m]

GenerateForecast(d, m, product, raw) ==
    IF m.models[product] = None
    THEN [forecast |-> None, message |-> NoModelFound, mem |-> m]
    ELSE IF raw = PredictRaises
    THEN [forecast |-> None, message |-> ForecastError, mem |-> m]
    ELSE [forecast |-> [i \in DOMAIN raw |->
                          [yhat |-> Clamp(raw[i].yhat),
                           yhat_lower |-> Clamp(raw[i].yhat_lower),
                           yhat_upper |-> Clamp(raw[i].yhat_upper)]],
          message |-> ForecastGenerated, mem |-> m]

\* ----------------------------------------------------------------- actions

Called(op, product, ret, saved) ==
    [op |-> op, product |-> product, ret |-> ret, saved |-> saved]

NoCall == [op |-> "none"]

IdleJob == [pc |-> "idle", product |-> NoKey, t |-> 0]
IdleLoad == [pc |-> "idle", product |-> NoKey, model |-> None, performance |-> None]

\* A new session on an empty models directory.
NewSession ==
    /\ disk = EmptyDisk
    /\ forecaster = NewForecaster(EmptyDisk)
    /\ nextId = 1
    /\ lastOp = Called("construct", NoKey, TRUE, TRUE)
    /\ everSaved = {}
    /\ job = [w \in Writers |-> IdleJob]
    /\ rd = IdleLoad
    /\ models_trained = FALSE
    /\ training_results = << >>
    /\ deleted = {}

Init ==
    /\ NewSession
    /\ args = NoCall
    /\ result = NoCall

\* The session's DairyForecaster is constructed anew (a new session on the
\* same files).
Construct ==
    /\ forecaster' = NewForecaster(disk)
    /\ lastOp' = Called("construct", NoKey, TRUE, TRUE)
    /\ UNCHANGED <<disk, nextId, everSaved, job, rd>>
    /\ UNCHANGED <<page, call>>

\* train_model whose model.fit raises, whatever the product: the except
\* branch returns False and nothing has been touched.
TrainFitFails ==
    /\ lastOp' = Called("train", NoKey, FALSE, FALSE)
    /\ UNCHANGED <<disk, forecaster, nextId, everSaved, job, rd>>
    /\ UNCHANGED <<page, call>>

\* train_model whose model.fit returns.
TrainModel(product, fault) ==
    /\ nextId <= MaxTrain
    /\ LET r == TrainModelResult(disk, forecaster, product, nextId, fault) IN
        /\ disk' = r.disk
        /\ forecaster' = r.mem
        /\ lastOp' = Called("train", product, r.ret, r.saved)
    /\ nextId' = nextId + 1
    /\ everSaved' = everSaved \cup {product}
    /\ UNCHANGED <<job, rd>>
    /\ UNCHANGED <<page, call>>

\* load_model
DoLoadModel(product) ==
    /\ LET r == LoadModel(disk, forecaster, product) IN
        /\ forecaster' = r.mem
        /\ lastOp' = Called("load", product, r.ret, TRUE)
    /\ UNCHANGED <<disk, nextId, everSaved, job, rd>>
    /\ UNCHANGED <<page, call>>

\* delete_model; a fault is drawn only where it can strike.
DeleteModel(product, rmFault) ==
    /\ rmFault = 0 \/ RemoveRaises(disk, Encode(product), rmFault)
    /\ LET r == DeleteModelResult(disk, forecaster, product, rmFault) IN
        /\ disk' = r.disk
        /\ forecaster' = r.mem
        /\ lastOp' = Called("delete", NoKey, r.ret, TRUE)
    /\ UNCHANGED <<nextId, everSaved, job, rd>>
    /\ UNCHANGED <<page, call>>

\* ------------------------------------------------- sessions side by side
\* Streamlit runs every session's script in a thread of its own, and the
\* forecasters of all sessions use the same directory without a lock.  Here
\* a file write and a file read are the steps: the calls of the writers
\* and the load_model of the followed session interleave file by file.  No
\* write raises and every save_model runs to its end.

NextPart(part) ==
    CASE part = "model" -> "performance"
      [] part = "performance" -> "metadata"
      [] part = "metadata" -> "idle"

\* Writer w enters train_model(data, product): fit, the dict entries (the
\* writer's own), then save_model is about to write the model file.
BeginTrain(w, product) ==
    /\ job[w].pc = "idle"
    /\ nextId <= MaxTrain
    /\ job' = [job EXCEPT ![w] = [pc |-> "model", product |-> product, t |-> nextId]]
    /\ nextId' = nextId + 1
    /\ everSaved' = everSaved \cup {product}
    /\ UNCHANGED <<disk, forecaster, lastOp, rd>>
    /\ UNCHANGED <<page, call>>

\* The next file write of writer w's save_model; after the third one
\* save_model and train_model return True.
WriteStep(w) ==
    /\ job[w].pc \in Parts
    /\ LET j == job[w]
           own == [EmptyForecaster EXCEPT
                      !.model_performance[j.product] = PerformanceOf(j.t)]
       IN /\ disk' = WriteFile(disk, Encode(j.product), j.pc,
                               SaveValue(own, j.product, j.t, j.pc), "none")
          /\ job' = [job EXCEPT ![w] =
                        IF NextPart(j.pc) = "idle" THEN IdleJob
                        ELSE [j EXCEPT !.pc = NextPart(j.pc)]]
          /\ lastOp' = IF NextPart(j.pc) = "idle"
                       THEN Called("train", j.product, TRUE, TRUE)
                       ELSE lastOp
    /\ UNCHANGED <<forecaster, nextId, everSaved, rd>>
    /\ UNCHANGED <<page, call>>

\* The session enters load_model(product): the three os.path.exists.
BeginLoad(product) ==
    /\ rd.pc = "idle"
    /\ IF \E p \in Parts : ~Exists(disk, Encode(product), p)
       THEN /\ lastOp' = Called("load", product, FALSE, TRUE)
            /\ rd' = rd
       ELSE /\ rd' = [IdleLoad EXCEPT !.pc = "model", !.product = product]
            /\ lastOp' = lastOp
    /\ UNCHANGED <<disk, forecaster, nextId, everSaved, job>>
    /\ UNCHANGED <<page, call>>

\* The next pickle.load of the session's load_model; after the third one
\* the three dict entries are set and load_model returns True.
ReadStep ==
    /\ rd.pc \in Parts
    /\ LET v == disk[Encode(rd.product)][rd.pc] IN
        IF v.st # "ok"
        THEN /\ rd' = IdleLoad
             /\ lastOp' = Called("load", rd.product, FALSE, TRUE)
             /\ forecaster' = forecaster
        ELSE CASE rd.pc = "model" ->
                    /\ rd' = [rd EXCEPT !.pc = "performance", !.model = v]
                    /\ UNCHANGED <<lastOp, forecaster>>
               [] rd.pc = "performance" ->
                    /\ rd' = [rd EXCEPT !.pc = "metadata", !.performance = v]
                    /\ UNCHANGED <<lastOp, forecaster>>
               [] rd.pc = "metadata" ->
                    /\ rd' = IdleLoad
                    /\ lastOp' = Called("load", rd.product, TRUE, TRUE)
                    /\ forecaster' =
                        [models |-> [forecaster.models EXCEPT ![rd.product] = rd.model],
                         model_performance |->
                             [forecaster.model_performance EXCEPT
                                 ![rd.product] = rd.performance],
                         metadata |-> [forecaster.metadata EXCEPT ![rd.product] = v]]
    /\ UNCHANGED <<disk, nextId, everSaved, job>>
    /\ UNCHANGED <<page, call>>

NextConc ==
    \/ \E w \in Writers, k \in Keys : BeginTrain(w, k)
    \/ \E w \in Writers : WriteStep(w)
    \/ \E k \in Keys : BeginLoad(k)
    \/ ReadStep

SpecConc == Init /\ [][NextConc]_vars

Next ==
    \/ Construct
    \/ TrainFitFails
    \/ \E k \in Keys, fault \in Faults : TrainModel(k, fault)
    \/ \E k \in Keys : DoLoadModel(k)
    \/ \E k \in Keys, rmFault \in RemoveFaults : DeleteModel(k, rmFault)

Spec == Init /\ [][Next]_vars

\* ------------------------------------------- the forecasting page's calls

\* The calls a session makes on its forecaster, each leaving its name, its
\* product and what it returned in args and result.
Asked(op, product) == [op |-> op, product |-> product]
Returned(ret) == [ret |-> ret]

\* train_model(data, product) with every file write succeeding; fits says
\* whether model.fit returns.
FcTrain(product, fits) ==
    /\ nextId <= MaxTrain
    /\ IF fits
       THEN LET r == TrainModelResult(disk, forecaster, product, nextId,
                                      [at |-> 0, how |-> "none"]) IN
            /\ disk' = r.disk
            /\ forecaster' = r.mem
            /\ nextId' = nextId + 1
            /\ result' = Returned(r.ret)
            /\ deleted' = deleted \ {product}
       ELSE /\ result' = Returned(FALSE)
            /\ UNCHANGED <<disk, forecaster, nextId, deleted>>
    /\ args' = Asked("train", product)
    /\ UNCHANGED <<lastOp, everSaved, job, rd, page>>

\* load_model(product)
FcLoad(product) ==
    /\ LET r == LoadModel(disk, forecaster, product) IN
        /\ forecaster' = r.mem
        /\ result' = Returned(r.ret)
        /\ deleted' = IF r.ret THEN deleted \ {product} ELSE deleted
    /\ args' = Asked("load", product)
    /\ UNCHANGED <<disk, nextId, lastOp, everSaved, job, rd, page>>

\* delete_model(product)
FcDelete(product, rmFault) ==
    /\ rmFault = 0 \/ RemoveRaises(disk, Encode(product), rmFault)
    /\ LET r == DeleteModelResult(disk, forecaster, product, rmFault) IN
        /\ disk' = r.disk
        /\ forecaster' = r.mem
        /\ result' = Returned(r.ret)
        /\ deleted' = IF r.ret THEN deleted \cup {product} ELSE deleted
    /\ args' = Asked("delete", product)
    /\ UNCHANGED <<nextId, lastOp, everSaved, job, rd, page>>

\* A new DairyForecaster: load_all_models loads every key it finds.
FcConstruct ==
    /\ forecaster' = NewForecaster(disk)
    /\ deleted' = { k \in deleted : NewForecaster(disk).models[k] = None }
    /\ args' = Asked("construct", NoKey)
    /\ result' = Returned(TRUE)
    /\ UNCHANGED <<disk, nextId, lastOp, everSaved, job, rd, page>>

\* generate_forecast(product, periods); a prediction is drawn only where
\* model.predict is reached.
DoGenerateForecast(product, raw) ==
    /\ forecaster.models[product] = None => raw = PredictRaises
    /\ LET r == GenerateForecast(disk, forecaster, product, raw) IN
        /\ forecaster' = r.mem
        /\ result' = [forecast |-> r.forecast, message |-> r.message]
    /\ args' = [op |-> "forecast", product |-> product, raw |-> raw]
    /\ UNCHANGED <<disk, nextId, lastOp, everSaved, job, rd, page, deleted>>

NextForecast ==
    \/ FcConstruct
    \/ \E k \in Keys, fits \in BOOLEAN : FcTrain(k, fits)
    \/ \E k \in Keys : FcLoad(k)
    \/ \E k \in Keys, rmFault \in RemoveFaults : FcDelete(k, rmFault)
    \/ \E k \in Keys, raw \in RawForecasts \cup {PredictRaises} :
           DoGenerateForecast(k, raw)

SpecForecast == Init /\ [][NextForecast]_vars

\* ----------------------------------------------------------- _evaluate_model

\* The longest training series followed.
MaxPoints == 95

ValidationDays == 30
MinTrainSize == 60

InsufficientData == "Insufficient data for validation"
ValidationNote == "Validation on last 30 days"
ValidationError == "Error in validation"

\* The rows lo..hi of the series (data[lo-1:hi] of the code).
Rows(lo, hi) == [first |-> lo, last |-> hi]

\* The performance entry _evaluate_model sets for a series of n rows; raises
\* says whether fitting or predicting with the temporary model raises. The
\* metrics are kept as the rows the temporary model was fitted on and the
\* rows its predictions were compared with.
EvaluateModelSkipsBelowMinTotal(n, raises) ==
    LET train_size == n - ValidationDays IN
    IF n < MinTrainSize
    THEN [metrics |-> None, note |-> InsufficientData]
    ELSE IF raises
    THEN [metrics |-> None, note |-> ValidationError]
    ELSE [metrics |-> [fitted_on |-> Rows(1, train_size),
                       tested_on |-> Rows(train_size + 1, n)],
          note |-> ValidationNote]

EvaluateModel(n, raises) ==
    LET train_size == n - ValidationDays IN
    IF train_size < MinTrainSize
    THEN [metrics |-> None, note |-> InsufficientData]
    ELSE IF raises
    THEN [metrics |-> None, note |-> ValidationError]
    ELSE [metrics |-> [fitted_on |-> Rows(1, train_size),
                       tested_on |-> Rows(train_size + 1, n)],
          note |-> ValidationNote]

\* The series train_model hands to _evaluate_model; the temporary model is
\* drawn as raising only where it is reached.
InitEval ==
    /\ NewSession
    /\ args \in { a \in [op : {"evaluate"}, n : 1..MaxPoints, raises : BOOLEAN] :
                     a.raises => a.n - ValidationDays >= MinTrainSize }
    /\ result = NoCall

Evaluate ==
    /\ args.op = "evaluate"
    /\ result = NoCall
    /\ result' = EvaluateModel(args.n, args.raises)
    /\ UNCHANGED <<disk, forecaster, nextId, lastOp, everSaved, job, rd, page,
                   args, deleted>>

NextEval == Evaluate

SpecEval == InitEval /\ [][NextEval]_vars

\* -------------------------------------------------------- ProductionOptimizer

\* Numbers are kept exact as integers: demand and stock in tenths of a unit,
\* safety stock in percent, production in thousandths of a unit, money in
\* cents, percentages in tenths of a percent.

\* The longest forecast table followed, its dates, its products (one with a
\* configuration, one without) and its demands, in tenths of a unit.
MaxRows == 2
Dates == 1..MaxRows
Products == {"Ghee", "Paneer"}
Demands == {0, 5, 1000, 4000}

\* The safety stock, in percent, and the capacities the caller may pass.
SafetyStocks == {0, 10, 50}
DefaultSafetyStock == 10
NoCapacity == 0
CustomCapacities == {NoCapacity, 80}

\* self.default_capacities.get(product, 1000)
DefaultCapacity(product) ==
    CASE product = "Milk" -> 2000
      [] product = "Butter" -> 500
      [] product = "Cheese" -> 400
      [] product = "Yogurt" -> 800
      [] product = "Ghee" -> 300
      [] OTHER -> 1000

\* self.production_costs.get(product, 0)
ProductionCost(product) ==
    CASE product = "Milk" -> 15
      [] product = "Butter" -> 300
      [] product = "Cheese" -> 250
      [] product = "Yogurt" -> 50
      [] product = "Ghee" -> 400
      [] OTHER -> 0

\* self.storage_costs.get(product, 1.0), in tenths
StorageCost(product) ==
    CASE product = "Milk" -> 5
      [] product = "Butter" -> 20
      [] product = "Cheese" -> 30
      [] product = "Yogurt" -> 10
      [] product = "Ghee" -> 25
      [] OTHER -> 10

\* self.shelf_life.get(product, 30)
ShelfLife(product) ==
    CASE product = "Milk" -> 5
      [] product = "Butter" -> 30
      [] product = "Cheese" -> 45
      [] product = "Yogurt" -> 10
      [] product = "Ghee" -> 90
      [] OTHER -> 30

\* _estimate_price
EstimatePrice(product) ==
    CASE product = "Milk" -> 25
      [] product = "Butter" -> 450
      [] product = "Cheese" -> 350
      [] product = "Yogurt" -> 80
      [] product = "Ghee" -> 600
      [] OTHER -> 100

\* round(n / d, 0) for d > 0: to the nearest integer, a tie to the even one.
RoundHalfEven(n, d) ==
    LET q == n \div d
        r == n % d
    IN IF 2 * r < d THEN q
       ELSE IF 2 * r > d THEN q + 1
       ELSE IF q % 2 = 0 THEN q ELSE q + 1

Min(a, b) == IF a <= b THEN a ELSE b
Max(a, b) == IF a >= b THEN a ELSE b

\* A forecast table: absent (None), or its rows in index order, with or
\* without a product column. A row's index label is its position less one.
NoTable == [absent |-> TRUE, product_column |-> FALSE, rows |-> << >>]
Table(product_column, rows) ==
    [absent |-> FALSE, product_column |-> product_column, rows |-> rows]

\* What the optimizer returns: None, or a table of plan rows.
NoPlan == [absent |-> TRUE, rows |-> << >>]
Plan(rows) == [absent |-> FALSE, rows |-> rows]

ProductForecastsKeepsAll(forecasts, product) ==
    [i \in DOMAIN forecasts.rows |->
        [label |-> i - 1,
         date |-> forecasts.rows[i].date,
         product |-> forecasts.rows[i].product,
         predicted_demand |-> forecasts.rows[i].predicted_demand]]

\* forecasts[forecasts['product'] == product] when there is a product
\* column, else forecasts; every row keeps its index label.
ProductForecasts(forecasts, product) ==
    LET labelled == [i \in DOMAIN forecasts.rows |->
                        [label |-> i - 1,
                         date |-> forecasts.rows[i].date,
                         product |-> forecasts.rows[i].product,
                         predicted_demand |-> forecasts.rows[i].predicted_demand]]
        Wanted(r) == r.product = product
    IN IF forecasts.product_column THEN SelectSeq(labelled, Wanted) ELSE labelled

\* sort_values('date')
RECURSIVE SortByDate(_)
SortByDate(rows) ==
    IF rows = << >> THEN << >>
    ELSE LET first == CHOOSE i \in DOMAIN rows :
                         \A j \in DOMAIN rows :
                             \/ rows[i].date < rows[j].date
                             \/ (rows[i].date = rows[j].date /\ i <= j)
             rest == [j \in 1..(Len(rows) - 1) |->
                         IF j < first THEN rows[j] ELSE rows[j + 1]]
         IN <<rows[first]>> \o SortByDate(rest)

\* custom_capacity or self.default_capacities.get(product, 1000)
CapacityIgnoresOverride(product, custom_capacity) == DefaultCapacity(product)
Capacity(product, custom_capacity) ==
    IF custom_capacity # NoCapacity THEN custom_capacity
    ELSE DefaultCapacity(product)

\* min(adjusted_demand, capacity), in thousandths: demand is in tenths and
\* safety_stock in percent.
ProductionQtyUncapped(demand, safety_stock, capacity) ==
    demand * (100 + safety_stock)
ProductionQty(demand, safety_stock, capacity) ==
    Min(demand * (100 + safety_stock), 1000 * capacity)

\* One row of the production plan. In the profit margin,
\* (potential_revenue - prod_cost) / potential_revenue, production_qty is
\* cancelled from the quotient to keep the numbers small.
PlanRow(row, product, safety_stock, capacity) ==
    LET production_qty == ProductionQty(row.predicted_demand, safety_stock, capacity)
        prod_cost == production_qty * ProductionCost(product)
        potential_revenue == production_qty * EstimatePrice(product)
    IN [date |-> row.date,
        forecasted_demand |-> row.predicted_demand,
        optimal_production |-> RoundHalfEven(production_qty, 1000),
        capacity_utilization |-> RoundHalfEven(production_qty, capacity),
        production_cost |-> RoundHalfEven(prod_cost, 10),
        potential_revenue |-> RoundHalfEven(potential_revenue, 10),
        profit_margin |->
            IF potential_revenue > 0
            THEN RoundHalfEven((EstimatePrice(product) - ProductionCost(product))
                                   * 1000,
                               EstimatePrice(product))
            ELSE 0]

\* calculate_optimal_production(forecasts, product, safety_stock, custom_capacity)
CalculateOptimalProduction(forecasts, product, safety_stock, custom_capacity) ==
    IF forecasts.absent \/ Len(forecasts.rows) = 0 THEN NoPlan
    ELSE LET capacity == Capacity(product, custom_capacity)
             product_forecasts == ProductForecasts(forecasts, product)
             sorted == SortByDate(product_forecasts)
         IN IF Len(product_forecasts) = 0 THEN NoPlan
            ELSE Plan([i \in DOMAIN sorted |->
                          PlanRow(sorted[i], product, safety_stock, capacity)])

\* The stock the caller may pass as current_inventory, in tenths.
Inventories == {0, 1500}

RECURSIVE SumDemand(_, _, _)
SumDemand(rows, lo, hi) ==
    IF lo > hi THEN 0
    ELSE rows[lo].predicted_demand + SumDemand(rows, lo + 1, hi)

\* _calculate_future_demand(forecasts, current_index, days):
\* forecasts.iloc[current_index:end_index], by position.
CalculateFutureDemand(forecasts, current_index, days) ==
    LET end_index == Min(current_index + days, Len(forecasts))
    IN SumDemand(forecasts, current_index + 1, end_index)

\* _get_stock_status
GetStockStatus(current_stock, reorder_point, optimal_stock) ==
    IF current_stock < reorder_point THEN "Reorder Required"
    ELSE IF current_stock > optimal_stock THEN "Overstock"
    ELSE "Optimal"

\* The loop of calculate_inventory_optimization from row n on, with
\* current_stock carried from row to row; i is the row's index label.
RECURSIVE InventoryRows(_, _, _, _)
InventoryRows(product_forecasts, product, n, current_stock) ==
    IF n > Len(product_forecasts) THEN << >>
    ELSE LET row == product_forecasts[n]
             i == row.label
             demand == row.predicted_demand
             future_demand ==
                 CalculateFutureDemand(product_forecasts, i, ShelfLife(product))
             optimal_stock == Min(future_demand, demand * ShelfLife(product))
             reorder_point == demand * 2
             order_qty == IF current_stock < reorder_point
                          THEN optimal_stock - current_stock
                          ELSE 0
             stock == Max(0, current_stock + order_qty - demand)
         IN << [date |-> row.date,
                current_inventory |-> RoundHalfEven(stock, 10),
                forecasted_demand |-> RoundHalfEven(demand, 10),
                optimal_stock_level |-> RoundHalfEven(optimal_stock, 10),
                reorder_point |-> RoundHalfEven(reorder_point, 10),
                recommended_order |-> RoundHalfEven(order_qty, 10),
                daily_storage_cost |-> stock * StorageCost(product),
                stock_status |->
                    GetStockStatus(stock, reorder_point, optimal_stock)] >>
            \o InventoryRows(product_forecasts, product, n + 1, stock)

CalculateInventoryOptimizationOfNoRows(forecasts, product, current_inventory) ==
    IF forecasts.absent \/ Len(forecasts.rows) = 0 THEN NoPlan
    ELSE Plan(InventoryRows(ProductForecasts(forecasts, product), product, 1,
                            current_inventory))

\* calculate_inventory_optimization(forecasts, product, current_inventory)
CalculateInventoryOptimization(forecasts, product, current_inventory) ==
    IF forecasts.absent \/ Len(forecasts.rows) = 0 THEN NoPlan
    ELSE LET product_forecasts == ProductForecasts(forecasts, product)
         IN IF Len(product_forecasts) = 0 THEN NoPlan
            ELSE Plan(InventoryRows(product_forecasts, product, 1,
                                    current_inventory))

\* The rows a table may hold, and the tables of up to MaxRows rows: a
\* product has one row per date. A table without a product column holds one
\* series.
TableRows(products) ==
    [date : Dates, product : products, predicted_demand : Demands]
RowSeqs(products) ==
    UNION { { t \in [1..n -> TableRows(products)] :
                \A i, j \in 1..n :
                    (t[i].product = t[j].product /\ t[i].date = t[j].date)
                        => i = j } : n \in 0..MaxRows }
Tables ==
    {NoTable}
        \cup { Table(TRUE, rows) : rows \in RowSeqs(Products) }
        \cup { Table(FALSE, rows) : rows \in RowSeqs({"series"}) }

ProductionCalls ==
    [op : {"production"}, forecasts : Tables, product : Products,
     safety_stock : SafetyStocks, custom_capacity : CustomCapacities]
InventoryCalls ==
    [op : {"inventory"}, forecasts : Tables, product : Products,
     current_inventory : Inventories]

InitPlan ==
    /\ NewSession
    /\ args \in ProductionCalls \cup InventoryCalls
    /\ result = NoCall

DoCalculateOptimalProduction ==
    /\ args.op = "production"
    /\ result = NoCall
    /\ result' = CalculateOptimalProduction(args.forecasts, args.product,
                                            args.safety_stock, args.custom_capacity)
    /\ UNCHANGED <<disk, forecaster, nextId, lastOp, everSaved, job, rd, page,
                   args, deleted>>

DoCalculateInventoryOptimization ==
    /\ args.op = "inventory"
    /\ result = NoCall
    /\ result' = CalculateInventoryOptimization(args.forecasts, args.product,
                                                args.current_inventory)
    /\ UNCHANGED <<disk, forecaster, nextId, lastOp, everSaved, job, rd, page,
                   args, deleted>>

NextPlan ==
    \/ DoCalculateOptimalProduction
    \/ DoCalculateInventoryOptimization

SpecPlan == InitPlan /\ [][NextPlan]_vars

\* ---------------------------------------------- generate_optimization_summary

UnderUtilized ==
    "Consider increasing production capacity utilization or reducing fixed costs"
ExpandCapacity == "Consider expanding production capacity to meet demand"
ReviewPricing == "Review pricing strategy or production costs to improve margins"
FlexibleScheduling ==
    "High demand variability detected - consider flexible production scheduling"

\* production_plan[name]
Column(rows, name) == [i \in DOMAIN rows |-> rows[i][name]]

\* .sum()
RECURSIVE Sum(_)
Sum(xs) == IF xs = << >> THEN 0 ELSE Head(xs) + Sum(Tail(xs))

\* .mean(), kept as the sum and the count
Mean(xs) == [sum |-> Sum(xs), count |-> Len(xs)]

\* a * 10^k / b for b > 0, by long division: the quotient and the remainder.
RECURSIVE QuotRem(_, _, _)
QuotRem(a, b, k) ==
    IF k = 0 THEN [q |-> a \div b, r |-> a % b]
    ELSE LET p == QuotRem(a, b, k - 1)
         IN [q |-> 10 * p.q + (10 * p.r) \div b, r |-> (10 * p.r) % b]

\* round(a / b * 100, 1) in tenths of a percent: a * 1000 / b to the nearest
\* integer, a tie to the even one.
RoundPercent(a, b) ==
    LET p == QuotRem(a, b, 3)
    IN IF 2 * p.r < b THEN p.q
       ELSE IF 2 * p.r > b THEN p.q + 1
       ELSE IF p.q % 2 = 0 THEN p.q ELSE p.q + 1

\* demand_mean > 0 and demand_std / demand_mean > 0.3, with the sample
\* standard deviation of pandas (NaN for one row, which compares False):
\* 100 * n * (n * sum(x^2) - sum(x)^2) > 9 * (n - 1) * sum(x)^2, the right
\* side divided by 100 * n in two parts to keep the numbers small.
HighVariability(xs) ==
    LET n == Len(xs)
        total == Sum(xs)
        squares == Sum([i \in DOMAIN xs |-> xs[i] * xs[i]])
        spread == n * squares - total * total
        c == 100 * n
    IN /\ n >= 2
       /\ total > 0
       /\ spread > 9 * (n - 1) * ((total * total) \div c)
                     + (9 * (n - 1) * ((total * total) % c)) \div c

\* _generate_product_recommendations(production_plan); utilization and
\* margin are in tenths of a percent.
GenerateProductRecommendationsMarginInElse(rows) ==
    LET n == Len(rows)
        utilization == Sum(Column(rows, "capacity_utilization"))
        margin == Sum(Column(rows, "profit_margin"))
    IN (IF utilization < 600 * n THEN <<UnderUtilized>>
        ELSE (IF utilization > 900 * n THEN <<ExpandCapacity>> ELSE << >>)
                \o (IF margin < 200 * n THEN <<ReviewPricing>> ELSE << >>))
       \o (IF HighVariability(Column(rows, "forecasted_demand"))
           THEN <<FlexibleScheduling>> ELSE << >>)

GenerateProductRecommendations(rows) ==
    LET n == Len(rows)
        utilization == Sum(Column(rows, "capacity_utilization"))
        margin == Sum(Column(rows, "profit_margin"))
    IN (IF utilization < 600 * n THEN <<UnderUtilized>>
        ELSE IF utilization > 900 * n THEN <<ExpandCapacity>>
        ELSE << >>)
       \o (IF margin < 200 * n THEN <<ReviewPricing>> ELSE << >>)
       \o (IF HighVariability(Column(rows, "forecasted_demand"))
           THEN <<FlexibleScheduling>> ELSE << >>)

\* The production plan generate_optimization_summary asks for: default
\* safety stock, no custom capacity.
SummaryPlan(forecasts, product) ==
    CalculateOptimalProduction(forecasts, product, DefaultSafetyStock, NoCapacity)

\* if production_plan is not None and len(production_plan) > 0
IncludedWithoutRows(plan) == TRUE
Included(plan) == ~plan.absent /\ Len(plan.rows) > 0

\* product_summary
ProductSummary(rows, product) ==
    [total_forecasted_demand |-> Sum(Column(rows, "forecasted_demand")),
     total_optimal_production |-> Sum(Column(rows, "optimal_production")),
     avg_capacity_utilization |-> Mean(Column(rows, "capacity_utilization")),
     total_production_cost |-> Sum(Column(rows, "production_cost")),
     total_potential_revenue |-> Sum(Column(rows, "potential_revenue")),
     avg_profit_margin |-> Mean(Column(rows, "profit_margin")),
     capacity_constraint |->
         IF product \in {"Milk", "Butter", "Cheese", "Yogurt", "Ghee"}
         THEN DefaultCapacity(product) ELSE "Unknown",
     recommendations |-> GenerateProductRecommendations(rows)]

\* total_production_cost / total_potential_revenue as the loop adds them up
\* over the list of products, from the summaries it has made.
RECURSIVE Total(_, _, _)
Total(analysis, products, name) ==
    IF products = << >> THEN 0
    ELSE (IF Head(products) \in DOMAIN analysis
          THEN analysis[Head(products)][name]
          ELSE 0)
         + Total(analysis, Tail(products), name)

\* generate_optimization_summary(forecasts, products)
GenerateOptimizationSummary(forecasts, products) ==
    LET listed == { products[i] : i \in DOMAIN products }
        plans == [p \in listed |-> SummaryPlan(forecasts, p)]
        analysis == [p \in { q \in listed : Included(plans[q]) } |->
                        ProductSummary(plans[p].rows, p)]
        total_production_cost == Total(analysis, products, "total_production_cost")
        total_potential_revenue ==
            Total(analysis, products, "total_potential_revenue")
    IN [total_products |-> Len(products),
        products_analysis |-> analysis,
        overall_metrics |->
            [total_production_cost |-> total_production_cost,
             total_potential_revenue |-> total_potential_revenue,
             overall_profit_margin |->
                 IF total_potential_revenue > 0
                 THEN RoundPercent(total_potential_revenue - total_production_cost,
                                   total_potential_revenue)
                 ELSE 0]]

\* The lists of products a summary is asked for, over a combined table: the
\* keys of the page's forecasts, each once; Milk has no forecast rows in any
\* table.
SummaryProducts == Products \cup {"Milk"}
ProductLists ==
    UNION { { l \in [1..n -> SummaryProducts] :
                \A i, j \in 1..n : l[i] = l[j] => i = j } :
            n \in 0..Cardinality(SummaryProducts) }

InitSummary ==
    /\ NewSession
    /\ args \in [op : {"summary"},
                  forecasts : { t \in Tables : t.absent \/ t.product_column },
                  products : ProductLists]
    /\ result = NoCall

DoGenerateOptimizationSummary ==
    /\ args.op = "summary"
    /\ result = NoCall
    /\ result' = GenerateOptimizationSummary(args.forecasts, args.products)
    /\ UNCHANGED <<disk, forecaster, nextId, lastOp, everSaved, job, rd, page,
                   args, deleted>>

NextSummary == DoGenerateOptimizationSummary

SpecSummary == InitSummary /\ [][NextSummary]_vars

\* ------------------------------------------- the production report's form
\* The report page reads a safety stock (a slider from 0 to 50 percent, 15
\* to begin with) and a capacity for each forecast product (a number input
\* from 100 up, the default capacity to begin with), and on "Generate
\* Production Analysis" concatenates the forecasts into one table with a
\* product column and asks the optimizer for the summary.

ReportSafetyStocks == {0, 15, 50}
MinCapacity == 100
ReportCapacities(product) == {MinCapacity, DefaultCapacity(product)}

\* list(forecasts.keys()): the products of the combined table, each once,
\* in the order they come in.
RECURSIVE ForecastKeys(_, _, _)
ForecastKeys(rows, n, keys) ==
    IF n > Len(rows) THEN keys
    ELSE ForecastKeys(rows, n + 1,
             IF \E i \in DOMAIN keys : keys[i] = rows[n].product
             THEN keys ELSE Append(keys, rows[n].product))

\* capacities: one number input for each forecast product.
FormCapacities(products) ==
    { c \in [products -> UNION { ReportCapacities(p) : p \in products }] :
        \A p \in products : c[p] \in ReportCapacities(p) }

ReportForms ==
    UNION { [op : {"report"}, forecasts : {Table(TRUE, rows)},
             safety_stock : ReportSafetyStocks,
             capacities : FormCapacities({ rows[i].product : i \in DOMAIN rows })] :
            rows \in { r \in RowSeqs(Products) : Len(r) > 0 } }

InitReport ==
    /\ NewSession
    /\ args \in ReportForms
    /\ result = NoCall

\* The "Generate Production Analysis" button.
GenerateProductionAnalysis ==
    /\ args.op = "report"
    /\ result = NoCall
    /\ result' = GenerateOptimizationSummary(
                     args.forecasts,
                     ForecastKeys(args.forecasts.rows, 1, << >>))
    /\ UNCHANGED <<disk, forecaster, nextId, lastOp, everSaved, job, rd, page,
                   args, deleted>>

NextReport == GenerateProductionAnalysis

SpecReport == InitReport /\ [][NextReport]_vars

\* ------------------------------------------------ the "Train Models" batch

\* What happens to one product of the batch: prepare_prophet_data raises
\* (the product has no row with a date), model.fit raises, the model is
\* trained and saved, or it is trained and the first file cannot be opened.
Outcomes == {"prepare_raises", "fit_raises", "saved", "save_fails"}

\* The multiselect's selections: products of the data, each once.
Selections ==
    UNION { { l \in [1..n -> Keys] : \A i, j \in 1..n : l[i] = l[j] => i = j } :
            n \in 1..Cardinality(Keys) }

Success == "Success"
Failed == "Failed"

\* The entry appended for a product train_model has returned success for.
Entry(product, success) ==
    [Product |-> product, Status |-> IF success THEN Success ELSE Failed]

\* The loop over selected_products from the n-th on: d, m and t are the
\* files, the forecaster's dicts and the next training; entries is
\* training_results so far. An exception of prepare_prophet_data leaves the
\* loop and the handler.
RECURSIVE TrainLoop(_, _, _, _, _, _, _)
TrainLoop(d, m, t, selected, outcomes, n, entries) ==
    IF n > Len(selected)
    THEN [raised |-> FALSE, disk |-> d, mem |-> m, nextId |-> t,
          training_results |-> entries]
    ELSE LET product == selected[n] IN
         CASE outcomes[n] = "prepare_raises" ->
                [raised |-> TRUE, disk |-> d, mem |-> m, nextId |-> t,
                 training_results |-> entries]
           [] outcomes[n] = "fit_raises" ->
                TrainLoop(d, m, t, selected, outcomes, n + 1,
                          Append(entries, Entry(product, FALSE)))
           [] OTHER ->
                LET fault == IF outcomes[n] = "saved"
                             THEN [at |-> 0, how |-> "none"]
                             ELSE [at |-> 1, how |-> "open"]
                    r == TrainModelResult(d, m, product, t, fault)
                IN TrainLoop(r.disk, r.mem, t + 1, selected, outcomes, n + 1,
                             Append(entries, Entry(product, r.ret)))

\* The trainings a batch makes.
Fits(outcomes) ==
    Cardinality({ i \in DOMAIN outcomes : outcomes[i] \in {"saved", "save_fails"} })

\* The "Train Models" button with a selection, pressed once in a new
\* session. The page has prepared the first selected product's data for its
\* preview before the button shows.
TrainModels(selected, outcomes) ==
    /\ args = NoCall
    /\ outcomes[1] # "prepare_raises"
    /\ nextId + Fits(outcomes) <= MaxTrain + 1
    /\ LET r == TrainLoop(disk, forecaster, nextId, selected, outcomes, 1, << >>)
           successful_trainings ==
               Cardinality({ i \in DOMAIN r.training_results :
                               r.training_results[i].Status = Success })
       IN /\ disk' = r.disk
          /\ forecaster' = r.mem
          /\ nextId' = r.nextId
          /\ training_results' = IF r.raised THEN training_results
                                 ELSE r.training_results
          /\ models_trained' = IF ~r.raised /\ successful_trainings > 0
                               THEN TRUE ELSE models_trained
          /\ result' = [raised |-> r.raised]
    /\ args' = [op |-> "train_models", selected |-> selected, outcomes |-> outcomes]
    /\ UNCHANGED <<lastOp, everSaved, job, rd, deleted>>

NextBatch ==
    \E selected \in Selections :
        \E outcomes \in [DOMAIN selected -> Outcomes] :
            TrainModels(selected, outcomes)

SpecBatch == Init /\ [][NextBatch]_vars

\* ------------------------------------------- the training page's buttons
\* Besides "Train Models" the page has "Use Existing Models" and "Clear All
\* Models", shown while get_available_models() lists something, and a
\* "Delete" button for a key chosen among forecaster.models.  models_trained
\* is the flag the forecasting page tests before it shows anything.

\* "Use Existing Models": the flag is set and the forecaster kept.
UseExistingModels ==
    /\ GetAvailableModels(disk) # {}
    /\ models_trained' = TRUE
    /\ UNCHANGED <<disk, forecaster, nextId, lastOp, everSaved, job, rd,
                   training_results, call>>

\* for model in available_models: forecaster.delete_model(model), with no
\* os.remove raising.
RECURSIVE ClearLoop(_, _, _, _)
ClearLoop(d, m, available_models, n) ==
    IF n > Len(available_models) THEN [disk |-> d, mem |-> m]
    ELSE LET r == DeleteModelResult(d, m, available_models[n], 0)
         IN ClearLoop(r.disk, r.mem, available_models, n + 1)

\* "Clear All Models"
ClearAllModels ==
    /\ GetAvailableModels(disk) # {}
    /\ LET r == ClearLoop(disk, forecaster,
                          SeqOfSet(GetAvailableModels(disk)), 1)
       IN /\ disk' = r.disk
          /\ forecaster' = r.mem
    /\ UNCHANGED <<nextId, lastOp, everSaved, job, rd, page, call>>

\* "Delete" with a key of forecaster.models selected; a fault is drawn only
\* where it can strike.
DeleteSelected(selected_product_to_delete, rmFault) ==
    /\ forecaster.models[selected_product_to_delete] # None
    /\ rmFault = 0
          \/ RemoveRaises(disk, Encode(selected_product_to_delete), rmFault)
    /\ LET r == DeleteModelResult(disk, forecaster,
                                  selected_product_to_delete, rmFault)
       IN /\ disk' = r.disk
          /\ forecaster' = r.mem
    /\ UNCHANGED <<nextId, lastOp, everSaved, job, rd, page, call>>

NextTraining ==
    \/ NextBatch
    \/ UseExistingModels
    \/ ClearAllModels
    \/ \E k \in Keys, rmFault \in RemoveFaults : DeleteSelected(k, rmFault)

SpecTraining == Init /\ [][NextTraining]_vars

\* ------------------------------------------------------ prepare_prophet_data

\* The longest sales table followed, its days, and its quantities. A record
\* whose Date cell is blank has no date (NaT).
MaxRecords == 3
Days == 1..3
NoDate == 0
Quantities == {1, 2}

SalesRecords ==
    [Date : Days \cup {NoDate}, Product : Products, Quantity_Sold : Quantities]
SalesTables == UNION { [1..n -> SalesRecords] : n \in 0..MaxRecords }

\* groupby('Date').agg(sum) for one day: the quantities of the product's
\* records of that day, from record n on.
RECURSIVE DayTotal(_, _, _, _)
DayTotal(df, product, day, n) ==
    IF n > Len(df) THEN 0
    ELSE (IF df[n].Product = product /\ df[n].Date = day
          THEN df[n].Quantity_Sold ELSE 0)
         + DayTotal(df, product, day, n + 1)

\* The days the product has a record of; groupby drops the records without
\* a date.
SaleDays(df, product) ==
    { df[n].Date : n \in { m \in DOMAIN df :
                              df[m].Product = product /\ df[m].Date # NoDate } }

SetMin(S) == CHOOSE x \in S : \A y \in S : x <= y
SetMax(S) == CHOOSE x \in S : \A y \in S : x >= y

\* The days of the series: pd.date_range(min, max, freq='D') and reindex.
SeriesDaysOfSalesOnly(df, product) ==
    LET days == SaleDays(df, product)
        Before(d) == Cardinality({ e \in days : e < d })
    IN [i \in 1..Cardinality(days) |-> CHOOSE d \in days : Before(d) = i - 1]
SeriesDays(df, product) ==
    LET days == SaleDays(df, product)
    IN [i \in 1..(SetMax(days) - SetMin(days) + 1) |-> SetMin(days) + i - 1]

\* prepare_prophet_data(df, product): the series of ds and y, or the
\* ValueError of pd.date_range when the product has no dated record.
PrepareProphetData(df, product) ==
    IF SaleDays(df, product) = {}
    THEN [raised |-> TRUE, rows |-> << >>]
    ELSE LET days == SeriesDays(df, product)
         IN [raised |-> FALSE,
             rows |-> [i \in DOMAIN days |->
                          [ds |-> days[i],
                           y |-> DayTotal(df, product, days[i], 1)]]]

InitPrepare ==
    /\ NewSession
    /\ args \in [op : {"prepare"}, df : SalesTables, product : Products]
    /\ result = NoCall

DoPrepareProphetData ==
    /\ args.op = "prepare"
    /\ result = NoCall
    /\ result' = PrepareProphetData(args.df, args.product)
    /\ UNCHANGED <<disk, forecaster, nextId, lastOp, everSaved, job, rd, page,
                   args, deleted>>

NextPrepare == DoPrepareProphetData

SpecPrepare == InitPrepare /\ [][NextPrepare]_vars

\* ------------------------------------ the forecasting page's comparison
\* The forecast results are displayed while current_forecasts holds a
\* forecast.  With more than one company in the sales data the display
\* has a company comparison tab, which for each forecast product and each
\* company with enough data constructs a DairyForecaster of its own, trains
\* a model under the key f"{company}_{product}" and forecasts with it.

Companies == {"a"}
ComparedProducts == {"b"}
CompanyKey(company, product) == <<company, "_", product>>
TrainingError == "Error training model"

\* One company of the comparison tab: temp_forecaster = DairyForecaster(),
\* train_model, and generate_forecast when train_model returned True.
CompareCompany(company, product, fits, fault, raw) ==
    /\ \/ args.op = "forecast" /\ result.message = ForecastGenerated
       \/ args.op = "compare"
    /\ nextId <= MaxTrain
    /\ LET key == CompanyKey(company, product)
           temp_forecaster == NewForecaster(disk)
           r == TrainModelResult(disk, temp_forecaster, key, nextId, fault)
       IN IF fits
          THEN LET f == GenerateForecast(r.disk, r.mem, key, raw) IN
               /\ disk' = r.disk
               /\ nextId' = nextId + 1
               /\ result' = [forecast |-> f.forecast, message |-> f.message]
          ELSE /\ raw = PredictRaises
               /\ fault = [at |-> 0, how |-> "none"]
               /\ result' = [forecast |-> None, message |-> TrainingError]
               /\ UNCHANGED <<disk, nextId>>
    /\ args' = [op |-> "compare", product |-> CompanyKey(company, product),
                raw |-> raw]
    /\ UNCHANGED <<forecaster, lastOp, everSaved, job, rd, page, deleted>>

NextComparison ==
    \/ \E k \in Keys, fits \in BOOLEAN : FcTrain(k, fits)
    \/ \E k \in Keys, raw \in RawForecasts \cup {PredictRaises} :
           DoGenerateForecast(k, raw)
    \/ \E company \in Companies, product \in ComparedProducts,
          fits \in BOOLEAN, fault \in Faults,
          raw \in RawForecasts \cup {PredictRaises} :
           CompareCompany(company, product, fits, fault, raw)

SpecComparison == Init /\ [][NextComparison]_vars

\* ------------------------------------------------------------ properties

\* The training the last train_model call made.
LastTraining == nextId - 1

\* The three files of a stem are there and readable / none is there.
Complete(d, stem) == \A p \in Parts : d[stem][p].st = "ok"
Gone(d, stem) == \A p \in Parts : d[stem][p].st = "absent"

\* C1: when train_model returns success, the three files of its product
\* were all written by this training.
C1_SuccessMeansAllThreeSaved ==
    (lastOp.op = "train" /\ lastOp.ret) =>
        \A p \in Parts :
            /\ disk[Encode(lastOp.product)][p].st = "ok"
            /\ disk[Encode(lastOp.product)][p].by = LastTraining

\* C2: every product in the models dict has a metadata entry, and that
\* entry was produced by the same training as the model.
C2_ModelHasMatchingMetadata ==
    \A k \in Keys :
        forecaster.models[k].st # "none" =>
            /\ forecaster.metadata[k].st = "ok"
            /\ forecaster.metadata[k].by = forecaster.models[k].by

\* C3: load_model returns False and leaves the three dicts as they were
\* when one of the three files is missing; when it returns True the three
\* dict entries of the product are the contents of the three files.
C3_LoadModelAllOrNothing ==
    [][\A k \in Keys :
          (lastOp'.op = "load" /\ DoLoadModel(k)) =>
              /\ (\E p \in Parts : ~Exists(disk, Encode(k), p)) =>
                     (~lastOp'.ret /\ forecaster' = forecaster)
              /\ lastOp'.ret =>
                     /\ Complete(disk, Encode(k))
                     /\ forecaster'.models[k] = disk[Encode(k)]["model"]
                     /\ forecaster'.model_performance[k] = disk[Encode(k)]["performance"]
                     /\ forecaster'.metadata[k] = disk[Encode(k)]["metadata"]
                     /\ \A o \in Keys \ {k} :
                            /\ forecaster'.models[o] = forecaster.models[o]
                            /\ forecaster'.model_performance[o] =
                                   forecaster.model_performance[o]
                            /\ forecaster'.metadata[o] = forecaster.metadata[o]]_vars

\* C3 witness: load_model has just refused a product of which only a part
\* of the files is there, and the dicts still hold the older model.
C3_RefusedPartialRecord ==
    /\ lastOp.op = "load" /\ ~lastOp.ret
    /\ \E p \in Parts : ~Exists(disk, Encode(lastOp.product), p)
    /\ Exists(disk, Encode(lastOp.product), "model")
    /\ forecaster.models[lastOp.product].st = "ok"

\* C4: a load_model that runs while other sessions save, each save running
\* to its end, and returns True has set a model, a performance and a
\* metadata entry written by one and the same save.
C4_LoadNeverTorn ==
    (lastOp.op = "load" /\ lastOp.ret) =>
        /\ forecaster.model_performance[lastOp.product].by =
               forecaster.models[lastOp.product].by
        /\ forecaster.metadata[lastOp.product].by =
               forecaster.models[lastOp.product].by

\* C5: once the saves of all sessions have completed, the three files of a
\* product come from one save, the one that wrote last (the metadata file
\* is the last a save writes).
C5_CompletedSavesLeaveOneRecord ==
    (\A w \in Writers : job[w].pc = "idle") =>
        \A s \in Stems : \A p \in Parts :
            disk[s][p].by = disk[s]["metadata"].by

\* C6: when a write of save_model fails during train_model, train_model
\* reports failure and the three dicts are what they were before the call.
C6_FailedWriteIsReportedAndLeavesDicts ==
    [][\A k \in Keys, fault \in Faults :
          (nextId' # nextId /\ fault.at # 0 /\ TrainModel(k, fault)) =>
              (~lastOp'.ret /\ forecaster' = forecaster)]_vars

\* C7: delete_model(k), when no os.remove fails, returns True, leaves no
\* file of k and no dict entry of k, for every k; model_exists(k) is False
\* afterwards, and was False before when k was never saved; deleting again
\* changes nothing.
C7_DeleteIsIdempotentAndExact ==
    [][\A k \in Keys :
          (lastOp'.op = "delete" /\ DeleteModel(k, 0)) =>
              /\ lastOp'.ret
              /\ Gone(disk', Encode(k))
              /\ forecaster'.models[k] = None
              /\ forecaster'.model_performance[k] = None
              /\ forecaster'.metadata[k] = None
              /\ ~ModelExists(disk', k)
              /\ k \notin everSaved => ~ModelExists(disk, k)
              /\ LET again == DeleteModelResult(disk', forecaster', k, 0) IN
                     again.ret /\ again.disk = disk' /\ again.mem = forecaster']_vars

\* The product keys that have a saved model, as save_model was given them:
\* save_model records its argument in the 'product' field of the metadata.
SavedProducts(d) ==
    { d[s]["metadata"].product : s \in { x \in Stems : Complete(d, x) } }

\* C8: when every product is either saved whole or not at all (as after
\* successful saves and deletes), get_available_models is the set of the
\* products that have a saved model, each as it was passed to save_model,
\* and a forecaster constructed on these files has each record under the
\* key it was saved with.
C8_AvailableModelsAreTheSavedKeys ==
    (\A s \in Stems : Complete(disk, s) \/ Gone(disk, s)) =>
        /\ GetAvailableModels(disk) = SavedProducts(disk)
        /\ \A k \in Keys :
               NewForecaster(disk).metadata[k].st = "ok" =>
                   NewForecaster(disk).metadata[k].product = k

\* C9: after a save of product k that succeeded, whatever was saved under
\* k before, load_model(k) in a new forecaster returns True and gives the
\* model, the performance and the metadata of this save.
C9_LoadYieldsMostRecentSave ==
    (lastOp.op = "train" /\ lastOp.saved) =>
        LET k == lastOp.product
            r == LoadModel(disk, NewForecaster(disk), k)
        IN /\ r.ret
           /\ r.mem.models[k] = ModelOf(LastTraining)
           /\ r.mem.model_performance[k] = PerformanceOf(LastTraining)
           /\ r.mem.metadata[k] = MetadataOf(LastTraining, k)

\* C9 witness: the second training has just saved, under the only product
\* key ever saved, and the files hold its record.
C9_SecondSaveUnderSameKey ==
    /\ lastOp.op = "train" /\ lastOp.saved
    /\ LastTraining = 2
    /\ everSaved = {lastOp.product}
    /\ disk[Encode(lastOp.product)]["metadata"] = MetadataOf(2, lastOp.product)

\* C10: a forecaster that has just been constructed holds every record
\* whose three files are there and readable, under the key decoded from
\* the file name, whatever the state of the other files.
C10_LoadAllLoadsEveryCompleteRecord ==
    lastOp.op = "construct" =>
        \A s \in Stems :
            Complete(disk, s) =>
                /\ forecaster.models[Decode(s)] = disk[s]["model"]
                /\ forecaster.model_performance[Decode(s)] = disk[s]["performance"]
                /\ forecaster.metadata[Decode(s)] = disk[s]["metadata"]

\* C10 witness: a forecaster has just been constructed on files where one
\* product has a model file but a missing or unreadable part, and another
\* product is whole and has been loaded.
C10_LoadedBesideBrokenRecord ==
    /\ lastOp.op = "construct"
    /\ \E s \in Stems :
           /\ Exists(disk, s, "model")
           /\ ~Complete(disk, s)
           /\ \E p \in Parts : disk[s][p].st = "corrupt"
    /\ \E s \in Stems :
           /\ Complete(disk, s)
           /\ forecaster.models[Decode(s)] = disk[s]["model"]

C12_ForecastNeverNegative ==
    (args.op = "forecast" /\ result.message = ForecastGenerated)
        => \A i \in DOMAIN result.forecast :
              /\ result.forecast[i].yhat >= 0
              /\ result.forecast[i].yhat_lower >= 0
              /\ result.forecast[i].yhat_upper >= 0

\* A forecast was returned for a prediction that was negative in all three
\* columns of a row.
C12_NegativePredictionForecast ==
    /\ args.op = "forecast"
    /\ result.message = ForecastGenerated
    /\ \E i \in DOMAIN args.raw : args.raw[i].yhat_upper < 0

\* C13 as stated: evaluation is skipped exactly when the series has fewer
\* than 60 points in total, and from 60 points on the metrics come from a
\* fit on the prefix tested on the last 30 points.
C13_SkippedBelowSixtyPoints ==
    (args.op = "evaluate" /\ result # NoCall)
        => /\ (result.metrics = None /\ result.note = InsufficientData)
                <=> args.n < MinTrainSize
           /\ args.n >= MinTrainSize
                => /\ result.metrics # None
                   /\ result.metrics.tested_on = Rows(args.n - ValidationDays + 1, args.n)
                   /\ result.metrics.fitted_on = Rows(1, args.n - ValidationDays)

\* C13, amended: evaluation is skipped with the insufficient-data note
\* exactly when fewer than 60 points are left after the last 30 are held out
\* (fewer than 90 in total); from 90 points on the metrics come from a fit on
\* the prefix tested on the last 30 points, or are absent with an error note
\* when the temporary model raises.
C13_SkippedBelowSixtyTrainingPoints ==
    (args.op = "evaluate" /\ result # NoCall)
        => /\ (result.metrics = None /\ result.note = InsufficientData)
                <=> args.n < MinTrainSize + ValidationDays
           /\ (args.n >= MinTrainSize + ValidationDays /\ ~args.raises)
                => /\ result.metrics # None
                   /\ result.note = ValidationNote
                   /\ result.metrics.tested_on = Rows(args.n - ValidationDays + 1, args.n)
                   /\ result.metrics.fitted_on = Rows(1, args.n - ValidationDays)
           /\ (args.n >= MinTrainSize + ValidationDays /\ args.raises)
                => /\ result.metrics = None
                   /\ result.note = ValidationError

\* A series of 60 to 89 points was evaluated: the evaluation was skipped.
C13_SkippedWithSixtyPoints ==
    /\ args.op = "evaluate"
    /\ args.n >= MinTrainSize
    /\ result # NoCall
    /\ result.metrics = None
    /\ result.note = InsufficientData

\* The call under study has returned.
Done(op) == args.op = op /\ result # NoCall

\* The positions of the requested product's series in the table passed: all
\* of them when the table has no product column.
InputSeries ==
    { i \in DOMAIN args.forecasts.rows :
        args.forecasts.product_column
            => args.forecasts.rows[i].product = args.product }

Abs(x) == IF x >= 0 THEN x ELSE -x

\* C14: for a series of at least one row, the plan
\* calculate_optimal_production returns has as many rows as the series, one
\* for each row of it.
C14_PlanHasOneRowPerInputRow ==
    (Done("production") /\ InputSeries # {})
        => /\ ~result.absent
           /\ Len(result.rows) = Cardinality(InputSeries)
           /\ \A i \in InputSeries :
                 Cardinality({ j \in DOMAIN result.rows :
                     /\ result.rows[j].date = args.forecasts.rows[i].date
                     /\ result.rows[j].forecasted_demand =
                            args.forecasts.rows[i].predicted_demand }) = 1

\* A plan was made for one product's rows out of a table that also holds
\* another product's.
C14_PlanFromCombinedTable ==
    /\ Done("production")
    /\ ~result.absent
    /\ Len(result.rows) < Len(args.forecasts.rows)

\* C15: in every row of every plan, 0 <= optimal_production <= capacity, the
\* capacity being the one used for the product.
C15_ProductionWithinCapacity ==
    (Done("production") /\ ~result.absent)
        => \A j \in DOMAIN result.rows :
              /\ 0 <= result.rows[j].optimal_production
              /\ result.rows[j].optimal_production
                    <= (IF args.custom_capacity # NoCapacity
                        THEN args.custom_capacity
                        ELSE DefaultCapacity(args.product))

\* A row whose demand with safety stock is above the capacity was planned.
C15_DemandAboveCapacityPlanned ==
    /\ Done("production")
    /\ ~result.absent
    /\ \E j \in DOMAIN result.rows :
          result.rows[j].forecasted_demand * (100 + args.safety_stock)
              > 1000 * (IF args.custom_capacity # NoCapacity
                        THEN args.custom_capacity
                        ELSE DefaultCapacity(args.product))

\* C16: every plan row is the reference formula applied to its demand, each
\* value rounded to its precision: capacity is the override when given, else
\* the product's default, else the fallback; production is
\* min(demand * (1 + safety_stock), capacity); utilization is
\* production / capacity * 100; cost is production * unit cost; revenue is
\* production * price; margin is (revenue - cost) / revenue * 100 when
\* revenue > 0 and 0 otherwise. Demand 100 with capacity 80 and safety stock
\* 0.1 gives production 80 and utilization 100.
C16_PlanRowIsReferenceFormula ==
    (Done("production") /\ ~result.absent)
        => LET capacity == IF args.custom_capacity # NoCapacity
                           THEN args.custom_capacity
                           ELSE IF args.product \in {"Milk", "Butter", "Cheese",
                                                      "Yogurt", "Ghee"}
                           THEN DefaultCapacity(args.product)
                           ELSE 1000
               cost == ProductionCost(args.product)
               price == EstimatePrice(args.product)
           IN \A j \in DOMAIN result.rows :
                LET row == result.rows[j]
                    adjusted == row.forecasted_demand * (100 + args.safety_stock)
                    production == IF adjusted <= 1000 * capacity
                                  THEN adjusted ELSE 1000 * capacity
                IN /\ 2 * Abs(1000 * row.optimal_production - production) <= 1000
                   /\ 2 * Abs(capacity * row.capacity_utilization - production)
                         <= capacity
                   /\ 2 * Abs(10 * row.production_cost - production * cost) <= 10
                   /\ 2 * Abs(10 * row.potential_revenue - production * price) <= 10
                   /\ IF production * price > 0
                      THEN 2 * Abs(price * row.profit_margin - (price - cost) * 1000)
                               <= price
                      ELSE row.profit_margin = 0
                   /\ (row.forecasted_demand = 1000 /\ capacity = 80
                          /\ args.safety_stock = 10)
                         => (row.optimal_production = 80
                               /\ row.capacity_utilization = 1000)

\* Demand 100 was planned with capacity 80 and safety stock 0.1, beside a
\* row of demand 0.
C16_ScenarioPlanned ==
    /\ Done("production")
    /\ ~result.absent
    /\ args.custom_capacity = 80
    /\ args.safety_stock = 10
    /\ \E j \in DOMAIN result.rows : result.rows[j].forecasted_demand = 1000
    /\ \E j \in DOMAIN result.rows : result.rows[j].potential_revenue = 0

\* C17: calculate_optimal_production and calculate_inventory_optimization
\* return None when the table is None, or empty, or holds no row of the
\* requested product.
C17_NoRowsGivesNoPlan ==
    ((Done("production") \/ Done("inventory")) /\ InputSeries = {})
        => result.absent

\* calculate_inventory_optimization was asked for a product that the table,
\* which has rows, holds no row of.
C17_InventoryOfMissingProduct ==
    /\ Done("inventory")
    /\ Len(args.forecasts.rows) > 0
    /\ InputSeries = {}
    /\ result.absent

\* The products of the list whose series in the table has at least one row.
WithRows ==
    { args.products[n] : n \in { m \in DOMAIN args.products :
        \E i \in DOMAIN args.forecasts.rows :
            args.forecasts.product_column
                => args.forecasts.rows[i].product = args.products[m] } }

RECURSIVE SubtotalSum(_, _)
SubtotalSum(ps, name) ==
    IF ps = {} THEN 0
    ELSE LET p == CHOOSE q \in ps : TRUE
         IN result.products_analysis[p][name] + SubtotalSum(ps \ {p}, name)

\* C18: the summary analyses exactly the listed products whose series has
\* rows and returns for the others too; the overall cost and revenue are the
\* sums of the subtotals of the analysed products, and the overall margin is
\* (total revenue - total cost) / total revenue * 100, or 0 when the total
\* revenue is 0.
C18_SummaryTotalsOverIncludedProducts ==
    Done("summary")
        => LET overall == result.overall_metrics
               analysed == DOMAIN result.products_analysis
           IN /\ analysed = WithRows
              /\ overall.total_production_cost
                    = SubtotalSum(analysed, "total_production_cost")
              /\ overall.total_potential_revenue
                    = SubtotalSum(analysed, "total_potential_revenue")
              /\ overall.overall_profit_margin
                    = IF overall.total_potential_revenue > 0
                      THEN RoundPercent(overall.total_potential_revenue
                                            - overall.total_production_cost,
                                        overall.total_potential_revenue)
                      ELSE 0
              /\ overall.total_potential_revenue = 0
                    => overall.overall_profit_margin = 0
              /\ (overall.total_potential_revenue > 0
                     /\ overall.total_production_cost = 0)
                    => overall.overall_profit_margin = 1000

\* A summary over three products, one of them without rows, was returned
\* with revenue from the two others.
C18_SummaryOmitsEmptyProduct ==
    /\ Done("summary")
    /\ Len(args.products) = 3
    /\ Cardinality(DOMAIN result.products_analysis) = 2
    /\ \A p \in DOMAIN result.products_analysis :
          result.products_analysis[p].total_potential_revenue > 0

\* The recommendation is in the list, once.
Recommends(recommendations, r) ==
    Cardinality({ i \in DOMAIN recommendations : recommendations[i] = r }) = 1
Omits(recommendations, r) ==
    \A i \in DOMAIN recommendations : recommendations[i] # r

\* C19: the recommendations of a product hold each of the four exactly when
\* its own condition holds, whatever the other three: under-utilization when
\* the mean utilization is below 60, capacity expansion when it is above 90,
\* pricing review when the mean margin is below 20, flexible scheduling when
\* the standard deviation of demand over its mean is above 0.3.
C19_EachRecommendationOnItsOwnCondition ==
    Done("summary")
        => \A p \in DOMAIN result.products_analysis :
             LET s == result.products_analysis[p]
                 recs == s.recommendations
                 rows == SummaryPlan(args.forecasts, p).rows
                 demand == Column(rows, "forecasted_demand")
                 utilization == s.avg_capacity_utilization
                 margin == s.avg_profit_margin
                 Exactly(r, condition) ==
                     IF condition THEN Recommends(recs, r) ELSE Omits(recs, r)
             IN /\ Exactly(UnderUtilized,
                           utilization.sum < 600 * utilization.count)
                /\ Exactly(ExpandCapacity,
                           utilization.sum > 900 * utilization.count)
                /\ Exactly(ReviewPricing, margin.sum < 200 * margin.count)
                /\ Exactly(FlexibleScheduling, HighVariability(demand))
                /\ (\A i, j \in DOMAIN demand : demand[i] = demand[j])
                      => Omits(recs, FlexibleScheduling)
                /\ (Len(demand) = 2 /\ demand[1] = 0 /\ demand[2] > 0)
                      => Recommends(recs, FlexibleScheduling)

\* A product got the under-utilization, the pricing and the scheduling
\* recommendations together.
C19_ThreeRecommendationsTogether ==
    /\ Done("summary")
    /\ \E p \in DOMAIN result.products_analysis :
          LET recs == result.products_analysis[p].recommendations
          IN /\ Recommends(recs, UnderUtilized)
             /\ Recommends(recs, ReviewPricing)
             /\ Recommends(recs, FlexibleScheduling)

\* C20: a batch over the selected products leaves one entry per selected
\* product, in selection order; a product whose processing failed has a
\* failed entry, the products after it are trained all the same, and the
\* batch counts as trained when an entry succeeded.
C20_BatchProcessesEverySelectedProduct ==
    args.op = "train_models"
        => /\ Len(training_results) = Len(args.selected)
           /\ \A i \in DOMAIN args.selected :
                 /\ training_results[i].Product = args.selected[i]
                 /\ args.outcomes[i] # "saved"
                       => training_results[i].Status = Failed
                 /\ args.outcomes[i] = "saved"
                       => /\ training_results[i].Status = Success
                          /\ forecaster.models[args.selected[i]] # None
           /\ (\E i \in DOMAIN training_results :
                  training_results[i].Status = Success) => models_trained

\* The records of the requested product that fall on a day.
RecordsOn(day) ==
    { n \in DOMAIN args.df :
        args.df[n].Product = args.product /\ args.df[n].Date = day }

RECURSIVE QuantityOf(_)
QuantityOf(ns) ==
    IF ns = {} THEN 0
    ELSE LET n == CHOOSE m \in ns : TRUE
         IN args.df[n].Quantity_Sold + QuantityOf(ns \ {n})

\* C21: the series prepare_prophet_data builds has strictly increasing dates,
\* one for every day from the product's first sale date to its last; a day
\* without a record has demand 0 and a day with several has their sum.
C21_SeriesIsContiguousDailySums ==
    (Done("prepare") /\ ~result.raised)
        => LET rows == result.rows
               sold == { d \in Days : RecordsOn(d) # {} }
           IN /\ Len(rows) >= 1
              /\ \A i \in DOMAIN rows : i > 1 => rows[i].ds = rows[i - 1].ds + 1
              /\ \A d \in sold : rows[1].ds <= d /\ d <= rows[Len(rows)].ds
              /\ rows[1].ds \in sold
              /\ rows[Len(rows)].ds \in sold
              /\ \A i \in DOMAIN rows : rows[i].y = QuantityOf(RecordsOn(rows[i].ds))

\* A series was built over a day without a record and a day with two.
C21_SeriesWithGapAndDoubleDay ==
    /\ Done("prepare")
    /\ ~result.raised
    /\ \E i \in DOMAIN result.rows : RecordsOn(result.rows[i].ds) = {}
    /\ \E i \in DOMAIN result.rows : Cardinality(RecordsOn(result.rows[i].ds)) = 2

\* The requested product's series of the inventory call, in table order.
InventorySeries ==
    LET Wanted(r) == args.forecasts.product_column => r.product = args.product
    IN SelectSeq(args.forecasts.rows, Wanted)

\* The demand of the series at positions p to p + days - 1, cut at its end.
RECURSIVE LookAhead(_, _, _)
LookAhead(series, p, days) ==
    IF days = 0 \/ p > Len(series) THEN 0
    ELSE series[p].predicted_demand + LookAhead(series, p + 1, days - 1)

\* C22: for the row at position p of the requested product's series, the
\* look-ahead demand is the demand of the series at positions p to
\* p + shelf_life_days - 1, also when the series is selected out of a table
\* of several products; seen in the optimal stock level, which is the lesser
\* of the look-ahead demand and demand * shelf_life_days.
C22_LookAheadByPosition ==
    (Done("inventory") /\ ~result.absent)
        => \A p \in DOMAIN result.rows :
              result.rows[p].optimal_stock_level
                  = RoundHalfEven(
                        Min(LookAhead(InventorySeries, p, ShelfLife(args.product)),
                            InventorySeries[p].predicted_demand
                                * ShelfLife(args.product)),
                        10)

\* The forward pass of the claim over the series from position p on, with
\* the running stock: what each row is to report.
RECURSIVE ForwardPass(_, _, _)
ForwardPass(series, p, stock) ==
    IF p > Len(series) THEN << >>
    ELSE LET demand == series[p].predicted_demand
             days == ShelfLife(args.product)
             optimal_stock == Min(LookAhead(series, p, days), demand * days)
             reorder_point == 2 * demand
             order == IF stock < reorder_point THEN optimal_stock - stock ELSE 0
             after == Max(0, stock + order - demand)
         IN << [current_inventory |-> RoundHalfEven(after, 10),
                optimal_stock_level |-> RoundHalfEven(optimal_stock, 10),
                reorder_point |-> RoundHalfEven(reorder_point, 10),
                recommended_order |-> RoundHalfEven(order, 10),
                stock_status |->
                    IF after < reorder_point THEN "Reorder Required"
                    ELSE IF after > optimal_stock THEN "Overstock"
                    ELSE "Optimal"] >>
            \o ForwardPass(series, p + 1, after)

\* C23: the inventory plan is one forward pass with one running stock: below
\* reorder_point = 2 * demand the order brings the stock up to
\* optimal_stock = min(look-ahead demand, demand * shelf_life_days), else it
\* is 0; then stock = max(0, stock + order - demand), never negative; the
\* status is 'Reorder Required' below the reorder point, else 'Overstock'
\* above the optimal stock, else 'Optimal'.
C23_SingleForwardPass ==
    (Done("inventory") /\ ~result.absent)
        => LET expected == ForwardPass(InventorySeries, 1, args.current_inventory)
           IN /\ Len(result.rows) = Len(expected)
              /\ \A p \in DOMAIN result.rows :
                    /\ result.rows[p].current_inventory >= 0
                    /\ result.rows[p].current_inventory = expected[p].current_inventory
                    /\ result.rows[p].optimal_stock_level
                          = expected[p].optimal_stock_level
                    /\ result.rows[p].reorder_point = expected[p].reorder_point
                    /\ result.rows[p].recommended_order
                          = expected[p].recommended_order
                    /\ result.rows[p].stock_status = expected[p].stock_status

\* C24: in every row of every inventory plan the recommended order is at
\* least 0.
C24_OrderNeverNegative ==
    (Done("inventory") /\ ~result.absent)
        => \A p \in DOMAIN result.rows : result.rows[p].recommended_order >= 0

\* What a forecaster that holds nothing gets from load_model(product) on
\* the files d.
FreshLoad(d, product) == LoadModel(d, NewForecaster(EmptyDisk), product)

\* C25: two different keys share no file: a train_model (which saves) or a
\* delete_model of key a leaves model_exists(b) and what load_model(b)
\* returns and loads unchanged for every other key b.
C25_KeysShareNoFiles ==
    [][ args'.op \in {"train", "delete"}
            => \A b \in Keys \ {args'.product} :
                   /\ ModelExists(disk', b) = ModelExists(disk, b)
                   /\ FreshLoad(disk', b) = FreshLoad(disk, b) ]_vars

\* C26: every key that model_exists answers True for, or that
\* get_available_models lists, is loaded by load_model in a forecaster
\* that holds nothing, also after saves and deletes that failed part-way.
C26_ListedKeysLoad ==
    \A k \in Keys :
        (ModelExists(disk, k) \/ k \in GetAvailableModels(disk))
            => FreshLoad(disk, k).ret

\* C27: every key that has a model in the session's models dict has its
\* model file: model_exists(k) is True.
C27_InMemoryModelsArePersisted ==
    \A k \in Keys : forecaster.models[k] # None => ModelExists(disk, k)

\* C28: generating and displaying forecasts, the company comparison tab
\* included, only reads the models directory: no file changes, and
\* get_available_models gives the same list afterwards.
C28_ForecastingOnlyReadsTheCache ==
    [][ args'.op \in {"forecast", "compare"}
            => /\ disk' = disk
               /\ GetAvailableModels(disk') = GetAvailableModels(disk) ]_vars

\* The keys that have a model in the session's forecaster.
InMemory == { k \in Keys : forecaster.models[k] # None }

\* C29: whenever models_trained is True the session's forecaster holds at
\* least one model, after any sequence of "Train Models", "Use Existing
\* Models", "Clear All Models" and "Delete".
C29_FlagMeansModelInMemory ==
    models_trained => InMemory # {}

\* The plan of a product under the values of the report's form.
ConfiguredPlan(product) ==
    CalculateOptimalProduction(args.forecasts, product, args.safety_stock,
                               args.capacities[product])

\* C30: the report's summary is made from the plans under the safety stock
\* and the capacities of the form: every forecast product's entry sums up
\* calculate_optimal_production(forecasts, product, safety_stock,
\* capacities[product]).
C30_SummaryUsesConfiguredParameters ==
    Done("report")
        => \A p \in DOMAIN result.products_analysis :
              LET entry == result.products_analysis[p]
                  configured == ProductSummary(ConfiguredPlan(p).rows, p)
              IN /\ entry.total_forecasted_demand
                        = configured.total_forecasted_demand
                 /\ entry.total_optimal_production
                        = configured.total_optimal_production
                 /\ entry.avg_capacity_utilization
                        = configured.avg_capacity_utilization
                 /\ entry.total_production_cost = configured.total_production_cost
                 /\ entry.total_potential_revenue
                        = configured.total_potential_revenue
                 /\ entry.avg_profit_margin = configured.avg_profit_margin
                 /\ entry.recommendations = configured.recommendations
====
